---------------------------- MODULE Spec2Model ----------------------------
(***************************************************************************)
(* A model of create_overview.py: the include/ignore predicate             *)
(* should_process, the Content Reporter process_all_python_files, the Tree *)
(* Reporter generate_tree_view and the configuration part of main.         *)
(*                                                                         *)
(* Strings are sequences of one-character strings.  A path is the sequence *)
(* of its components below the scan root, so the root itself is << >> and  *)
(* os.path.join(dirpath, name) is Append(dirpath, name).                   *)
(***************************************************************************)
EXTENDS Integers, Sequences, FiniteSets, TLC

VARIABLES
    pc,               \* position of main: see the actions
    args,             \* the parsed command line (argparse namespace)
    env,              \* the three API-key environment variables
    api_key,          \* main's api_key
    include_patterns, \* main's include_patterns
    ignore_patterns,  \* main's ignore_patterns
    log,              \* records logged at ERROR or CRITICAL, in order
    artifacts,        \* output files opened for writing so far
    stack,            \* os.walk: directories still to be yielded
    visited,          \* per reporter: directories os.walk yielded, in order
    skipped,          \* per reporter: directories that took the "Ignored directory" branch
    dirpath,          \* the directory whose loop body is running
    pending,          \* names the inner for loop has still to handle
    output_txt,       \* process_all_python_files: blocks written to the transcript
    output_tree,      \* generate_tree_view: lines written to the tree text
    overview_data,    \* process_all_python_files: overview_data
    tree_data,        \* generate_tree_view: tree_data
    directory_info,   \* generate_tree_view: directory_info of dirpath
    json_out,         \* the list json.dump wrote, per reporter
    requests,         \* file paths for which requests.post was called, in order
    read_ok,          \* files whose content was read
    read_failed,      \* files whose read raised IOError/OSError
    api_failed,       \* files whose description request failed, with the kind
    entry_failed,     \* tree entries whose stat/owner lookup failed, with the kind
    faults,           \* failures injected so far
    p_done,           \* process_all_python_files returned
    t_done,           \* generate_tree_view returned
    m_pc,             \* should_process on its own: "input", "applied" or "idle"
    m_path,           \* its path
    m_root,           \* its root_dir (the base name of the root)
    m_include,        \* its include_patterns
    m_ignore,         \* its ignore_patterns
    m_result          \* its return value

main_vars == <<pc, args, env, api_key, include_patterns, ignore_patterns, log,
               artifacts, stack, visited, skipped, dirpath, pending, output_txt,
               output_tree,
               overview_data, tree_data, directory_info, json_out, requests,
               read_ok, read_failed, api_failed, entry_failed, faults, p_done,
               t_done>>

match_vars == <<m_pc, m_path, m_root, m_include, m_ignore, m_result>>

vars == <<main_vars, match_vars>>

-----------------------------------------------------------------------------
(* Bounds *)

\* failures (read, request, stat, open) injected in one run
MaxFaults == 1
\* length of a glob pattern handed to should_process on its own
MaxPatLen == 2
\* depth of a path handed to should_process on its own
MaxPathDepth == 2

-----------------------------------------------------------------------------
(* Strings and paths *)

None == "None"

\* generate_tree_view's directory_info outside a directory's loop body
NoDirectoryInfo == [open |-> FALSE, directory |-> << >>, contents |-> << >>]

\* os.path.relpath(path, root_dir) for a path at or below the root
RECURSIVE JoinSlash(_)
JoinSlash(path) ==
    IF Len(path) = 1 THEN path[1]
    ELSE path[1] \o <<"/">> \o JoinSlash(Tail(path))

relpath(path) == IF path = << >> THEN <<".">> ELSE JoinSlash(path)

\* os.path.basename(path); the root's base name is that of root_dir
basename(path, root_dir) == IF path = << >> THEN root_dir ELSE path[Len(path)]

\* str.endswith
endswith(s, suffix) ==
    /\ Len(s) >= Len(suffix)
    /\ SubSeq(s, Len(s) - Len(suffix) + 1, Len(s)) = suffix

\* fnmatch.fnmatch(name, pat) on POSIX (normcase is the identity): the whole
\* name must match; "*" matches any run of characters, "/" included, "?" any
\* one character, every other character itself.  Patterns with "[" are not
\* among the inputs.  fnmatch_from matches name from position i on against
\* pat from position j on.
RECURSIVE fnmatch_from(_, _, _, _)
fnmatch_from(name, i, pat, j) ==
    IF j > Len(pat) THEN i > Len(name)
    ELSE IF pat[j] = "*"
         THEN \/ fnmatch_from(name, i, pat, j + 1)
              \/ i <= Len(name) /\ fnmatch_from(name, i + 1, pat, j)
    ELSE IF pat[j] = "?"
         THEN i <= Len(name) /\ fnmatch_from(name, i + 1, pat, j + 1)
    ELSE i <= Len(name) /\ name[i] = pat[j] /\ fnmatch_from(name, i + 1, pat, j + 1)

fnmatch(name, pat) == fnmatch_from(name, 1, pat, 1)

\* any(fnmatch(rel_path, p) or fnmatch(base_name, p) for p in patterns)
matches_any(path, root_dir, patterns) ==
    LET rel_path == relpath(path)
        base_name == basename(path, root_dir)
    IN  \E i \in 1..Len(patterns) :
            \/ fnmatch(rel_path, patterns[i])
            \/ fnmatch(base_name, patterns[i])

-----------------------------------------------------------------------------
(* should_process *)

\* a variant in which a path matching an include pattern is never ignored
should_process_include_wins(path, root_dir, include, ignore) ==
    IF relpath(path) = <<".">> THEN TRUE
    ELSE IF include # << >>
         THEN matches_any(path, root_dir, include)
    ELSE ~ matches_any(path, root_dir, ignore)

\* a variant without the root exemption
should_process_no_root(path, root_dir, include, ignore) ==
    IF include # << >> /\ ~ matches_any(path, root_dir, include) THEN FALSE
    ELSE ~ matches_any(path, root_dir, ignore)

should_process(path, root_dir, include, ignore) ==
    IF relpath(path) = <<".">> THEN TRUE
    ELSE IF include # << >> /\ ~ matches_any(path, root_dir, include) THEN FALSE
    ELSE IF matches_any(path, root_dir, ignore) THEN FALSE
    ELSE TRUE

-----------------------------------------------------------------------------
(* should_process applied to inputs drawn from bounded sets *)

PatAlphabet == {"a", ".", "/", "*", "?"}

SeqsUpTo(S, n) == UNION {[1..k -> S] : k \in 0..n}

MatchPatterns == SeqsUpTo(PatAlphabet, MaxPatLen)

MatchNames == {<<"a">>, <<".", "a">>}

MatchPaths == SeqsUpTo(MatchNames, MaxPathDepth)

MatchRoots == {<<"a">>, <<".">>}

\* pattern lists: empty, one pattern, or a literal that matches nothing
\* followed by one pattern
MatchLists ==
    {<< >>} \cup {<<p>> : p \in MatchPatterns}
            \cup {<<(<<"z">>), p>> : p \in MatchPatterns}

IdleMain ==
    /\ pc = "idle"
    /\ args = None
    /\ env = None
    /\ api_key = None
    /\ include_patterns = << >>
    /\ ignore_patterns = << >>
    /\ log = << >>
    /\ artifacts = {}
    /\ stack = << >>
    /\ visited = [python |-> << >>, tree |-> << >>]
    /\ skipped = [python |-> {}, tree |-> {}]
    /\ dirpath = << >>
    /\ pending = << >>
    /\ output_txt = << >>
    /\ output_tree = << >>
    /\ overview_data = << >>
    /\ tree_data = << >>
    /\ directory_info = NoDirectoryInfo
    /\ json_out = [python |-> << >>, tree |-> << >>]
    /\ requests = << >>
    /\ read_ok = {}
    /\ read_failed = {}
    /\ api_failed = {}
    /\ entry_failed = {}
    /\ faults = 0
    /\ p_done = FALSE
    /\ t_done = FALSE

IdleMatch ==
    /\ m_pc = "idle"
    /\ m_path = << >>
    /\ m_root = << >>
    /\ m_include = << >>
    /\ m_ignore = << >>
    /\ m_result = None

MatchInit ==
    /\ IdleMain
    /\ m_pc = "input"
    /\ m_path \in MatchPaths
    /\ m_root \in MatchRoots
    /\ m_include \in MatchLists
    /\ m_ignore \in MatchLists
    /\ m_result = None

Apply ==
    /\ m_pc = "input"
    /\ m_result' = should_process(m_path, m_root, m_include, m_ignore)
    /\ m_pc' = "applied"
    /\ UNCHANGED <<m_path, m_root, m_include, m_ignore, main_vars>>

MatchNext == Apply

SpecMatch == MatchInit /\ [][MatchNext]_vars


-----------------------------------------------------------------------------
(* The file tree under the scan root *)

A_PY  == <<"a", ".", "p", "y">>
B_TXT == <<"b", ".", "t", "x", "t">>
C_PY  == <<"c", ".", "p", "y">>
D_PY  == <<"d", ".", "p", "y">>
E_TXT == <<"e", ".", "t", "x", "t">>
F_PY  == <<"f", ".", "p", "y">>
G_PY  == <<"g", ".", "p", "y">>
H_PY  == <<"h", ".", "p", "y">>
ENV   == <<"e", "n", "v">>
DOT_H == <<".", "h">>
S     == <<"s">>
U     == <<"u">>
V     == <<"v">>

\* what os.scandir yields for each directory, in the order it yields it
Listing(dir) ==
    CASE dir = << >>     -> <<[name |-> A_PY, is_dir |-> FALSE],
                              [name |-> ENV, is_dir |-> TRUE],
                              [name |-> B_TXT, is_dir |-> FALSE],
                              [name |-> S, is_dir |-> TRUE],
                              [name |-> DOT_H, is_dir |-> TRUE]>>
      [] dir = <<ENV>>    -> <<[name |-> C_PY, is_dir |-> FALSE],
                              [name |-> U, is_dir |-> TRUE]>>
      [] dir = <<ENV, U>> -> <<[name |-> F_PY, is_dir |-> FALSE]>>
      [] dir = <<S>>      -> <<[name |-> D_PY, is_dir |-> FALSE],
                              [name |-> V, is_dir |-> TRUE],
                              [name |-> E_TXT, is_dir |-> FALSE]>>
      [] dir = <<S, V>>   -> <<[name |-> H_PY, is_dir |-> FALSE]>>
      [] dir = <<DOT_H>>  -> <<[name |-> G_PY, is_dir |-> FALSE]>>
      [] OTHER            -> << >>

Dirs == {<< >>, <<ENV>>, <<ENV, U>>, <<S>>, <<S, V>>, <<DOT_H>>}

Names(entries) == [i \in 1..Len(entries) |-> entries[i].name]

IsDirEntry(e) == e.is_dir
IsFileEntry(e) == ~ e.is_dir

\* os.walk: the dirs and nondirs lists it builds from the scandir entries
walk_dirs(top) == Names(SelectSeq(Listing(top), IsDirEntry))
walk_nondirs(top) == Names(SelectSeq(Listing(top), IsFileEntry))

\* every path of the tree other than the root
Entries == UNION {{Append(d, Listing(d)[i].name) : i \in 1..Len(Listing(d))} : d \in Dirs}
Files == Entries \ Dirs

\* os.path.isdir
isdir(path) == path \in Dirs

\* the proper ancestors of a path below the root, the root excluded
Ancestors(path) == {SubSeq(path, 1, k) : k \in 1..(Len(path) - 1)}

PY == <<".", "p", "y">>

\* a variant that takes every file for a Python file
is_python_file_any(filename) == endswith(filename, << >>)

\* filename.endswith('.py')
is_python_file(filename) == endswith(filename, PY)

-----------------------------------------------------------------------------
(* main: the command line, the environment and the configuration *)

\* Python truthiness of an optional string
Truthy(x) == x # None /\ x # ""

\* a or b
Or(a, b) == IF Truthy(a) THEN a ELSE b

default_ignore_patterns ==
    << <<".", "*">>,
       <<"_", "_", "*", "_", "_">>,
       <<"v", "e", "n", "v">>,
       <<"e", "n", "v">>,
       <<"_", "_", "p", "y", "c", "a", "c", "h", "e", "_", "_">> >>

Whitespace == {" ", "\n", "\t"}

\* str.strip
RECURSIVE lstrip(_)
lstrip(s) == IF s # << >> /\ Head(s) \in Whitespace THEN lstrip(Tail(s)) ELSE s
RECURSIVE rstrip(_)
rstrip(s) ==
    IF s # << >> /\ s[Len(s)] \in Whitespace THEN rstrip(SubSeq(s, 1, Len(s) - 1)) ELSE s
strip(s) == rstrip(lstrip(s))

\* the --ignore-file arguments of the runs and what open() finds there
IgnoreFileReadable(name) == name = "ok.ign"

IgnoreFileLines(name) ==
    IF name = "ok.ign"
    THEN << <<"v", "\n">>,
            <<"#", " ", "c", "\n">>,
            <<"\n">>,
            <<" ", "*", ".", "t", "x", "t", " ", "\n">> >>
    ELSE << >>

\* for line in f: line = line.strip(); if line and not line.startswith('#')
RECURSIVE ignore_file_patterns(_)
ignore_file_patterns(lines) ==
    IF lines = << >> THEN << >>
    ELSE LET line == strip(Head(lines))
         IN  (IF line # << >> /\ Head(line) # "#" THEN <<line>> ELSE << >>)
                 \o ignore_file_patterns(Tail(lines))

\* list.extend(x) guarded by "if x:".  An option that was not given (None) and
\* one given no values ([]) are both the empty sequence: "if x:" treats them alike.
Extend(list, x) == IF x # << >> THEN list \o x ELSE list

NoPatternArgs ==
    [ignore_patterns |-> << >>, ignore_dirs |-> << >>, ignore_files |-> << >>,
     ignore_file |-> None, include_patterns |-> << >>, include_dirs |-> << >>,
     include_files |-> << >>]

STAR_PY == <<"*", ".", "p", "y">>

\* the pattern arguments of the runs
PatternArgs ==
    { NoPatternArgs,
      [NoPatternArgs EXCEPT !.ignore_dirs = <<S>>],
      [NoPatternArgs EXCEPT !.include_files = <<STAR_PY>>],
      [NoPatternArgs EXCEPT !.include_dirs = <<S>>, !.include_files = <<STAR_PY>>],
      [NoPatternArgs EXCEPT !.include_patterns = << <<"*">> >>, !.ignore_files = <<A_PY>>],
      [NoPatternArgs EXCEPT !.ignore_file = "ok.ign"],
      [NoPatternArgs EXCEPT !.ignore_file = "missing.ign"],
      [NoPatternArgs EXCEPT !.ignore_patterns = << <<"*">> >>],
      [NoPatternArgs EXCEPT !.include_patterns = << <<"s", "*">> >>] }

\* the environments of the runs: OPENAI_API_KEY, API_KEY, api_key
Environments ==
    { [OPENAI_API_KEY |-> None, API_KEY |-> None, api_key |-> None],
      [OPENAI_API_KEY |-> None, API_KEY |-> "", api_key |-> "sk-lower"],
      [OPENAI_API_KEY |-> "sk-openai", API_KEY |-> "sk-upper", api_key |-> None] }

\* the base name of the root_dir argument
ROOT == <<"r">>

ArgSets ==
    { [p EXCEPT !.python = py, !.tree = tr, !.description = de, !.api = ap] :
        p \in {[f \in DOMAIN q \cup {"python", "tree", "description", "api", "root_dir"}
                  |-> IF f \in DOMAIN q THEN q[f] ELSE ROOT] : q \in PatternArgs},
        py \in BOOLEAN, tr \in BOOLEAN, de \in BOOLEAN, ap \in {None, "sk-arg"} }

Init ==
    /\ IdleMatch
    /\ pc = "resolve_key"
    /\ args \in ArgSets
    /\ env \in Environments
    /\ api_key = None
    /\ include_patterns = << >>
    /\ ignore_patterns = << >>
    /\ log = << >>
    /\ artifacts = {}
    /\ stack = << >>
    /\ visited = [python |-> << >>, tree |-> << >>]
    /\ skipped = [python |-> {}, tree |-> {}]
    /\ dirpath = << >>
    /\ pending = << >>
    /\ output_txt = << >>
    /\ output_tree = << >>
    /\ overview_data = << >>
    /\ tree_data = << >>
    /\ directory_info = NoDirectoryInfo
    /\ json_out = [python |-> << >>, tree |-> << >>]
    /\ requests = << >>
    /\ read_ok = {}
    /\ read_failed = {}
    /\ api_failed = {}
    /\ entry_failed = {}
    /\ faults = 0
    /\ p_done = FALSE
    /\ t_done = FALSE

Logged(level, what) == Append(log, [level |-> level, what |-> what])

\* os.getenv('OPENAI_API_KEY') or os.getenv('API_KEY') or os.getenv('api_key')
env_api_key(e) == Or(Or(e.OPENAI_API_KEY, e.API_KEY), e.api_key)

\* a variant that takes a key whenever one is at hand, description mode or not
resolve_api_key_always(a, e) ==
    IF Truthy(a.api) THEN a.api
    ELSE IF Truthy(env_api_key(e)) THEN env_api_key(e)
    ELSE IF a.description THEN "missing" ELSE None

\* main's choice of api_key: "missing" stands for the branch that exits
resolve_api_key(a, e) ==
    IF a.description
    THEN IF Truthy(a.api) THEN a.api
         ELSE IF Truthy(env_api_key(e)) THEN env_api_key(e)
         ELSE "missing"
    ELSE None

\* main, lines 332-349
ResolveKey ==
    /\ pc = "resolve_key"
    /\ LET k == resolve_api_key(args, env)
       IN  IF k = "missing"
           THEN /\ log' = Logged("CRITICAL", "api key required")
                /\ pc' = "exit1"
                /\ UNCHANGED api_key
           ELSE /\ api_key' = k
                /\ pc' = "patterns"
                /\ UNCHANGED log
    /\ UNCHANGED <<args, env, include_patterns, ignore_patterns, artifacts, stack,
                   visited, skipped, dirpath, pending, output_txt, output_tree,
                   overview_data, tree_data, directory_info, json_out, requests,
                   read_ok, read_failed, api_failed, entry_failed, faults, p_done,
                   t_done, match_vars>>

\* the ignore list before the ignore file is read
ignore_from_args(a) ==
    Extend(Extend(Extend(default_ignore_patterns, a.ignore_patterns),
                  a.ignore_dirs), a.ignore_files)

include_from_args(a) ==
    Extend(Extend(Extend(<< >>, a.include_patterns), a.include_dirs), a.include_files)

\* main, lines 356-395
CollectPatterns ==
    /\ pc = "patterns"
    /\ IF Truthy(args.ignore_file) /\ ~ IgnoreFileReadable(args.ignore_file)
       THEN /\ log' = Logged("ERROR", "failed to read ignore file")
            /\ pc' = "exit1"
            /\ UNCHANGED <<include_patterns, ignore_patterns>>
       ELSE /\ ignore_patterns' =
                   IF Truthy(args.ignore_file)
                   THEN ignore_from_args(args)
                            \o ignore_file_patterns(IgnoreFileLines(args.ignore_file))
                   ELSE ignore_from_args(args)
            /\ include_patterns' = include_from_args(args)
            /\ pc' = "python"
            /\ UNCHANGED log
    /\ UNCHANGED <<args, env, api_key, artifacts, stack, visited, skipped, dirpath,
                   pending, output_txt, output_tree, overview_data, tree_data,
                   directory_info, json_out, requests, read_ok, read_failed,
                   api_failed, entry_failed, faults, p_done, t_done, match_vars>>

-----------------------------------------------------------------------------
(* Failures of the world around the program *)

\* the outcomes of a call: those in ok, and each in failed
\* while fewer than MaxFaults failures have happened
Outcomes(ok, failed) == ok \cup (IF faults < MaxFaults THEN failed ELSE {})

IsFault(o) == o # "ok"

\* open(filepath) and f.read(): IOError/OSError, or bytes that are not UTF-8
ReadFailures == {"os_error", "unicode_decode_error"}

\* requests.post, raise_for_status, response.json() and the indexing of data
RequestFailures ==
    {"http_error", "connection_error", "timeout", "request_exception",
     "missing_key", "empty_choices"}

\* os.stat and pwd.getpwuid
StatFailures == {"file_not_found", "permission_error", "other_os_error", "unknown_uid"}

FALLBACK == "Description unavailable due to an API error."

\* get_file_description: the request's outcome decides the except clause.
\* data['choices'][0] on an empty list raises IndexError, which none catches.
get_file_description(outcome) ==
    CASE outcome = "ok" ->
            [raised |-> FALSE, description |-> "generated", usage |-> "tokens",
             logged |-> << >>]
      [] outcome \in {"http_error", "connection_error", "timeout",
                      "request_exception", "missing_key"} ->
            [raised |-> FALSE, description |-> FALLBACK, usage |-> "",
             logged |-> <<[level |-> "ERROR", what |-> outcome]>>]
      [] OTHER ->
            [raised |-> TRUE, description |-> "", usage |-> "", logged |-> << >>]

-----------------------------------------------------------------------------
(* os.walk with the caller's pruning *)

Join(top, names) == [i \in 1..Len(names) |-> Append(top, names[i])]

\* a variant that keeps every directory
prune_nothing(top, dirs, root_dir, include, ignore) == dirs

\* dirnames[:] = [d for d in dirnames if should_process(join(dirpath, d), ...)]
prune(top, dirs, root_dir, include, ignore) ==
    LET Keep(d) == should_process(Append(top, d), root_dir, include, ignore)
    IN  SelectSeq(dirs, Keep)

-----------------------------------------------------------------------------
(* process_all_python_files *)

TXT_P  == "all_python_files.txt"
JSON_P == "all_python_files.json"

\* main's "if args.python:" and the reporter up to the opening of its text file
StartPython ==
    /\ pc = "python"
    /\ IF ~ args.python
       THEN /\ pc' = "tree"
            /\ UNCHANGED <<log, artifacts, stack, faults>>
       ELSE \E o \in Outcomes({"ok"}, {"os_error"}) :
              IF o = "ok"
              THEN /\ artifacts' = artifacts \cup {TXT_P}
                   /\ stack' = << << >> >>
                   /\ pc' = "p_walk"
                   /\ UNCHANGED <<log, faults>>
              ELSE /\ log' = Logged("CRITICAL", "failed to write output file")
                   /\ faults' = faults + 1
                   /\ pc' = "exit1"
                   /\ UNCHANGED <<artifacts, stack>>
    /\ UNCHANGED <<args, env, api_key, include_patterns, ignore_patterns, visited,
                   skipped, dirpath, pending, output_txt, output_tree,
                   overview_data, tree_data, directory_info, json_out, requests,
                   read_ok, read_failed, api_failed, entry_failed, p_done, t_done,
                   match_vars>>

\* one turn of "for dirpath, dirnames, filenames in os.walk(root_dir)" up to
\* the inner loop: os.walk lists the next directory, the caller prunes dirnames
PythonWalkDir ==
    /\ pc = "p_walk"
    /\ pending = << >>
    /\ stack # << >>
    /\ LET top == Head(stack)
           dirnames == prune(top, walk_dirs(top), args.root_dir,
                             include_patterns, ignore_patterns)
       IN  /\ visited' = [visited EXCEPT !.python = Append(@, top)]
           /\ stack' = Join(top, dirnames) \o Tail(stack)
           /\ dirpath' = top
           /\ IF ~ should_process(top, args.root_dir, include_patterns, ignore_patterns)
              THEN /\ skipped' = [skipped EXCEPT !.python = @ \cup {top}]
                   /\ pending' = << >>
              ELSE /\ pending' = walk_nondirs(top)
                   /\ UNCHANGED skipped
    /\ UNCHANGED <<pc, args, env, api_key, include_patterns, ignore_patterns, log,
                   artifacts, output_txt, output_tree, overview_data, tree_data,
                   directory_info, json_out, requests, read_ok, read_failed,
                   api_failed, entry_failed, faults, p_done, t_done, match_vars>>

\* one turn of "for filename in filenames"
PythonFile ==
    /\ pc = "p_walk"
    /\ pending # << >>
    /\ LET filename == Head(pending)
           filepath == Append(dirpath, filename)
       IN  IF \/ ~ should_process(filepath, args.root_dir, include_patterns, ignore_patterns)
              \/ ~ is_python_file(filename)
           THEN /\ pending' = Tail(pending)
                /\ UNCHANGED <<pc, log, output_txt, overview_data, requests, read_ok,
                               read_failed, api_failed, faults>>
           ELSE \E r \in Outcomes({"ok"}, ReadFailures) :
                  CASE r = "os_error" ->
                         /\ log' = Logged("ERROR", "failed to read file")
                         /\ read_failed' = read_failed \cup {filepath}
                         /\ faults' = faults + 1
                         /\ pending' = Tail(pending)
                         /\ UNCHANGED <<pc, output_txt, overview_data, requests,
                                        read_ok, api_failed>>
                    [] r = "unicode_decode_error" ->
                         \* a ValueError: no except clause of the reporter takes it
                         /\ pc' = "crash"
                         /\ faults' = faults + 1
                         /\ UNCHANGED <<pending, log, output_txt, overview_data,
                                        requests, read_ok, read_failed, api_failed>>
                    [] OTHER ->
                         /\ read_ok' = read_ok \cup {filepath}
                         /\ UNCHANGED read_failed
                         /\ IF Truthy(api_key)
                            THEN \E o \in Outcomes({"ok"}, RequestFailures) :
                                   LET got == get_file_description(o)
                                   IN  /\ requests' = Append(requests, filepath)
                                       /\ faults' = IF IsFault(o) THEN faults + 1 ELSE faults
                                       /\ api_failed' =
                                              IF IsFault(o)
                                              THEN api_failed \cup {<<filepath, o>>}
                                              ELSE api_failed
                                       /\ log' = log \o got.logged
                                       /\ IF got.raised
                                          THEN /\ pc' = "crash"
                                               /\ UNCHANGED <<pending, output_txt,
                                                              overview_data>>
                                          ELSE /\ output_txt' = Append(output_txt,
                                                      [filename |-> filename,
                                                       description |-> got.description,
                                                       filepath |-> filepath,
                                                       content |-> filepath])
                                               /\ overview_data' = Append(overview_data,
                                                      [filename |-> filename,
                                                       filepath |-> filepath,
                                                       description |-> got.description,
                                                       content |-> filepath])
                                               /\ pending' = Tail(pending)
                                               /\ UNCHANGED pc
                            ELSE /\ output_txt' = Append(output_txt,
                                        [filename |-> filename, filepath |-> filepath,
                                         content |-> filepath])
                                 /\ overview_data' = Append(overview_data,
                                        [filename |-> filename, filepath |-> filepath,
                                         content |-> filepath])
                                 /\ pending' = Tail(pending)
                                 /\ UNCHANGED <<pc, log, requests, api_failed, faults>>
    /\ UNCHANGED <<args, env, api_key, include_patterns, ignore_patterns, artifacts,
                   stack, visited, skipped, dirpath, output_tree, tree_data,
                   directory_info, json_out, entry_failed, p_done, t_done,
                   match_vars>>

\* the walk is over: the text file is closed and the JSON file written
PythonFinish ==
    /\ pc = "p_walk"
    /\ pending = << >>
    /\ stack = << >>
    /\ \E o \in Outcomes({"ok"}, {"os_error"}) :
         IF o = "ok"
         THEN /\ artifacts' = artifacts \cup {JSON_P}
              /\ json_out' = [json_out EXCEPT !.python = overview_data]
              /\ p_done' = TRUE
              /\ pc' = "tree"
              /\ UNCHANGED <<log, faults>>
         ELSE /\ log' = Logged("CRITICAL", "failed to write JSON output file")
              /\ faults' = faults + 1
              /\ pc' = "exit1"
              /\ UNCHANGED <<artifacts, json_out, p_done>>
    /\ UNCHANGED <<args, env, api_key, include_patterns, ignore_patterns, stack,
                   visited, skipped, dirpath, pending, output_txt, output_tree,
                   overview_data, tree_data, directory_info, requests, read_ok,
                   read_failed, api_failed, entry_failed, t_done, match_vars>>

-----------------------------------------------------------------------------
(* generate_tree_view *)

TXT_T  == "directory_tree.txt"
JSON_T == "directory_tree.json"

\* stat.filemode(os.stat(path).st_mode) and pwd.getpwuid(st_uid).pw_name
filemode(path) == IF isdir(path) THEN "drwxr-xr-x" ELSE "-rw-r--r--"
owner_name(path) == "owner"

\* a variant that lists the names in the order os.scandir yielded them
tree_names_scandir_order(top, dirnames, filenames) ==
    LET Kept(e) == ~ e.is_dir \/ \E i \in 1..Len(dirnames) : dirnames[i] = e.name
    IN  Names(SelectSeq(Listing(top), Kept))

\* "for name in dirnames + filenames"
tree_names(top, dirnames, filenames) == dirnames \o filenames

\* main's "if args.tree:" and the reporter up to the opening of its text file
StartTree ==
    /\ pc = "tree"
    /\ IF ~ args.tree
       THEN /\ pc' = "done"
            /\ UNCHANGED <<log, artifacts, stack, faults>>
       ELSE \E o \in Outcomes({"ok"}, {"os_error"}) :
              IF o = "ok"
              THEN /\ artifacts' = artifacts \cup {TXT_T}
                   /\ stack' = << << >> >>
                   /\ pc' = "t_walk"
                   /\ UNCHANGED <<log, faults>>
              ELSE /\ log' = Logged("CRITICAL", "failed to write tree output file")
                   /\ faults' = faults + 1
                   /\ pc' = "exit1"
                   /\ UNCHANGED <<artifacts, stack>>
    /\ UNCHANGED <<args, env, api_key, include_patterns, ignore_patterns, visited,
                   skipped, dirpath, pending, output_txt, output_tree,
                   overview_data, tree_data, directory_info, json_out, requests,
                   read_ok, read_failed, api_failed, entry_failed, p_done, t_done,
                   match_vars>>

\* one turn of the os.walk loop up to the inner loop: the header is written and
\* directory_info created; a directory with no names is appended at once
TreeWalkDir ==
    /\ pc = "t_walk"
    /\ pending = << >>
    /\ stack # << >>
    /\ LET top == Head(stack)
           dirnames == prune(top, walk_dirs(top), args.root_dir,
                             include_patterns, ignore_patterns)
           names == tree_names(top, dirnames, walk_nondirs(top))
           info == [open |-> TRUE, directory |-> top, contents |-> << >>]
       IN  /\ visited' = [visited EXCEPT !.tree = Append(@, top)]
           /\ stack' = Join(top, dirnames) \o Tail(stack)
           /\ dirpath' = top
           /\ IF ~ should_process(top, args.root_dir, include_patterns, ignore_patterns)
              THEN /\ skipped' = [skipped EXCEPT !.tree = @ \cup {top}]
                   /\ pending' = << >>
                   /\ UNCHANGED <<output_tree, directory_info, tree_data>>
              ELSE /\ output_tree' = output_tree \o
                          <<[kind |-> "header", directory |-> top],
                            [kind |-> "rule", directory |-> top]>>
                   /\ pending' = names
                   /\ IF names = << >>
                      THEN /\ tree_data' = Append(tree_data,
                                  [directory |-> top, contents |-> << >>])
                           /\ directory_info' = NoDirectoryInfo
                      ELSE /\ directory_info' = info
                           /\ UNCHANGED tree_data
                   /\ UNCHANGED skipped
    /\ UNCHANGED <<pc, args, env, api_key, include_patterns, ignore_patterns, log,
                   artifacts, output_txt, overview_data, json_out, requests,
                   read_ok, read_failed, api_failed, entry_failed, faults, p_done,
                   t_done, match_vars>>

\* one turn of "for name in dirnames + filenames"; after the last name
\* directory_info is appended to tree_data
TreeEntry ==
    /\ pc = "t_walk"
    /\ pending # << >>
    /\ LET name == Head(pending)
           full_path == Append(dirpath, name)
           last == Tail(pending) = << >>
           Close(contents) ==
               IF last
               THEN /\ tree_data' = Append(tree_data,
                           [directory |-> dirpath, contents |-> contents])
                    /\ directory_info' = NoDirectoryInfo
               ELSE /\ directory_info' = [directory_info EXCEPT !.contents = contents]
                    /\ UNCHANGED tree_data
       IN  IF ~ should_process(full_path, args.root_dir, include_patterns, ignore_patterns)
           THEN /\ pending' = Tail(pending)
                /\ Close(directory_info.contents)
                /\ UNCHANGED <<pc, log, output_tree, entry_failed, faults>>
           ELSE \E o \in Outcomes({"ok"}, StatFailures) :
                  CASE o = "ok" ->
                         /\ output_tree' = Append(output_tree,
                                [kind |-> "entry", directory |-> dirpath,
                                 permissions |-> filemode(full_path),
                                 owner |-> owner_name(full_path), name |-> name])
                         /\ Close(Append(directory_info.contents,
                                [name |-> name,
                                 permissions |-> filemode(full_path),
                                 owner |-> owner_name(full_path),
                                 type |-> IF isdir(full_path) THEN "directory" ELSE "file"]))
                         /\ pending' = Tail(pending)
                         /\ UNCHANGED <<pc, log, entry_failed, faults>>
                    [] o \in {"file_not_found", "permission_error"} ->
                         /\ log' = Logged("ERROR", "failed to access")
                         /\ entry_failed' = entry_failed \cup {<<full_path, o>>}
                         /\ faults' = faults + 1
                         /\ pending' = Tail(pending)
                         /\ Close(directory_info.contents)
                         /\ UNCHANGED <<pc, output_tree>>
                    [] o = "other_os_error" ->
                         \* an OSError the inner clause does not name: the outer
                         \* except (IOError, OSError) takes it
                         /\ log' = Logged("CRITICAL", "failed to write tree output file")
                         /\ entry_failed' = entry_failed \cup {<<full_path, o>>}
                         /\ faults' = faults + 1
                         /\ pc' = "exit1"
                         /\ UNCHANGED <<pending, output_tree, tree_data, directory_info>>
                    [] OTHER ->
                         \* pwd.getpwuid raises KeyError: no except clause takes it
                         /\ entry_failed' = entry_failed \cup {<<full_path, o>>}
                         /\ faults' = faults + 1
                         /\ pc' = "crash"
                         /\ UNCHANGED <<pending, log, output_tree, tree_data,
                                        directory_info>>
    /\ UNCHANGED <<args, env, api_key, include_patterns, ignore_patterns, artifacts,
                   stack, visited, skipped, dirpath, output_txt, overview_data,
                   json_out, requests, read_ok, read_failed, api_failed, p_done,
                   t_done, match_vars>>

\* the walk is over: the text file is closed and the JSON file written
TreeFinish ==
    /\ pc = "t_walk"
    /\ pending = << >>
    /\ stack = << >>
    /\ \E o \in Outcomes({"ok"}, {"os_error"}) :
         IF o = "ok"
         THEN /\ artifacts' = artifacts \cup {JSON_T}
              /\ json_out' = [json_out EXCEPT !.tree = tree_data]
              /\ t_done' = TRUE
              /\ pc' = "done"
              /\ UNCHANGED <<log, faults>>
         ELSE /\ log' = Logged("CRITICAL", "failed to write JSON output file")
              /\ faults' = faults + 1
              /\ pc' = "exit1"
              /\ UNCHANGED <<artifacts, json_out, t_done>>
    /\ UNCHANGED <<args, env, api_key, include_patterns, ignore_patterns, stack,
                   visited, skipped, dirpath, pending, output_txt, output_tree,
                   overview_data, tree_data, directory_info, requests, read_ok,
                   read_failed, api_failed, entry_failed, p_done, match_vars>>

Next ==
    \/ ResolveKey
    \/ CollectPatterns
    \/ StartPython
    \/ PythonWalkDir
    \/ PythonFile
    \/ PythonFinish
    \/ StartTree
    \/ TreeWalkDir
    \/ TreeEntry
    \/ TreeFinish

Spec == Init /\ [][Next]_vars

\* the process has ended: exit status 0, sys.exit(1), or an uncaught exception
Ended == pc \in {"done", "exit1", "crash"}
ExitCode == IF pc = "done" THEN 0 ELSE 1

-----------------------------------------------------------------------------
(* C1: ignore wins.  As claimed, for every path: a path that matches an    *)
(* ignore pattern (by relative path or base name) is rejected.             *)
C1_IgnoreWinsEveryPath ==
    (m_pc = "applied" /\ matches_any(m_path, m_root, m_ignore))
        => m_result = FALSE

\* C1 as amended: every path other than the scan root that matches an ignore
\* pattern is rejected, whether or not it also matches an include pattern.
C1_IgnoreWinsBelowRoot ==
    (m_pc = "applied" /\ m_path # << >> /\ matches_any(m_path, m_root, m_ignore))
        => m_result = FALSE

C1_Witness ==
    /\ m_pc = "applied"
    /\ m_path # << >>
    /\ m_include # << >>
    /\ matches_any(m_path, m_root, m_include)
    /\ matches_any(m_path, m_root, m_ignore)
    /\ m_result = FALSE

\* C2: the scan root passes should_process whatever the pattern lists are.
C2_RootAlwaysPasses ==
    (m_pc = "applied" /\ m_path = << >>) => m_result = TRUE

C2_Witness ==
    /\ m_pc = "applied"
    /\ m_path = << >>
    /\ m_include # << >>
    /\ ~ matches_any(m_path, m_root, m_include)
    /\ m_ignore = << <<"*">> >>
    /\ m_result = TRUE

-----------------------------------------------------------------------------
(* What the reporters have put out *)

Range(seq) == {seq[i] : i \in 1..Len(seq)}

\* should_process as the running program calls it
Passes(path) == should_process(path, args.root_dir, include_patterns, ignore_patterns)

\* paths named in the Content Reporter's transcript, list and JSON file
PythonReported ==
    {r.filepath : r \in Range(output_txt) \cup Range(overview_data) \cup Range(json_out.python)}

InfoPaths(info) ==
    {info.directory} \cup {Append(info.directory, e.name) : e \in Range(info.contents)}

\* paths named in the Tree Reporter's text, lists and JSON file
TreeReported ==
    UNION ({InfoPaths(i) : i \in Range(tree_data) \cup Range(json_out.tree)}
            \cup {IF directory_info.open THEN InfoPaths(directory_info) ELSE {}}
            \cup {IF l.kind = "entry" THEN {Append(l.directory, l.name)} ELSE {l.directory}
                    : l \in Range(output_tree)})

Reported == PythonReported \cup TreeReported

Visited == Range(visited.python) \cup Range(visited.tree)

\* a path lies beneath directory d
Beneath(path, d) == d \in Ancestors(path)

\* the paths of the tree, the root included, that pass should_process
Passing == {p \in Entries \cup {<< >>} : Passes(p)}

-----------------------------------------------------------------------------
(* C3: subtree pruning.  Whenever a subdirectory is rejected by            *)
(* should_process, neither reporter's text, list or JSON output names a    *)
(* path beneath it, and os.walk never yields it.                           *)
C3_SubtreePruned ==
    pc # "idle" =>
        LET rejected == Dirs \ Passing
            reported == Reported
        IN  \A d \in rejected :
                /\ d \notin Visited
                /\ \A p \in reported : ~ Beneath(p, d)

\* both reporters ran to the end with a rejected directory that holds, at depth
\* two, a file that itself passes should_process
C3_Witness ==
    /\ pc = "done" /\ p_done /\ t_done
    /\ PythonReported # {} /\ TreeReported # {}
    /\ \E d \in Dirs \ {<< >>} :
          /\ ~ Passes(d)
          /\ \E f \in Files : Beneath(f, d) /\ Len(f) = Len(d) + 2 /\ Passes(f)
                                 /\ \A a \in Ancestors(f) \ {d} : Passes(a)

-----------------------------------------------------------------------------
\* the '.py' files the Matcher accepts, wherever they lie under the root
MatchedPythonFiles == {f \in Files : endswith(f[Len(f)], PY) /\ Passes(f)}

\* those of them the walk reaches and whose content could be read
ReachedPythonFiles ==
    LET passing == Passing
    IN  {f \in Files : /\ endswith(f[Len(f)], PY)
                       /\ f \in passing
                       /\ Ancestors(f) \subseteq passing
                       /\ f \notin read_failed}

(* C4: record count.  As claimed: once process_all_python_files has        *)
(* returned, the JSON array holds as many records as there are '.py' files *)
(* under the root, at any depth, that pass should_process.                 *)
C4_CountIsMatchedFiles ==
    p_done => Len(json_out.python) = Cardinality(MatchedPythonFiles)

\* C4 as amended: once process_all_python_files has returned, the JSON array
\* holds exactly one record for each '.py' file that passes should_process,
\* whose ancestor directories below the root all pass should_process, and
\* whose content could be read; so its length is the number of those files.
C4_CountIsReachedFiles ==
    p_done =>
        LET reached == ReachedPythonFiles
        IN  /\ Len(json_out.python) = Cardinality(reached)
            /\ {r.filepath : r \in Range(json_out.python)} = reached

\* a completed content run with a record written, a file lost to a read
\* failure, and a matching file beneath a pruned directory
C4_Witness ==
    /\ p_done
    /\ Len(json_out.python) >= 1
    /\ read_failed # {}
    /\ \E f \in MatchedPythonFiles : \E a \in Ancestors(f) : ~ Passes(a)

-----------------------------------------------------------------------------
(* C10: ancestor-chain filtering.  Every directory os.walk yields passes   *)
(* should_process, so no reporter takes its "Ignored directory" branch, and *)
(* every path a reporter names passes should_process together with all its *)
(* ancestor directories below the root.                                    *)
C10_AncestorChain ==
    pc # "idle" =>
        /\ skipped.python = {} /\ skipped.tree = {}
        /\ LET passing == Passing
           IN  /\ Visited \subseteq passing
               /\ \A p \in Reported : p \in passing /\ Ancestors(p) \subseteq passing

\* both reporters ran to the end under a non-empty include list; a file that
\* matches an include pattern and passes should_process is missing from the
\* output because its directory matches no include pattern
C10_Witness ==
    /\ pc = "done" /\ p_done /\ t_done
    /\ include_patterns # << >>
    /\ PythonReported # {}
    /\ \E f \in Files :
          /\ matches_any(f, args.root_dir, include_patterns)
          /\ Passes(f)
          /\ \E a \in Ancestors(f) : ~ matches_any(a, args.root_dir, include_patterns)
          /\ f \notin Reported

-----------------------------------------------------------------------------
\* the files of the tree in the order a full os.walk comes to them
RECURSIVE WalkFiles(_)
WalkFiles(todo) ==
    IF todo = << >> THEN << >>
    ELSE LET top == Head(todo)
         IN  Join(top, walk_nondirs(top))
                 \o WalkFiles(Join(top, walk_dirs(top)) \o Tail(todo))

WasRead(f) == f \in read_ok

(* C8: outbound requests.  Without -description no request is ever issued, *)
(* whatever -api and the environment hold; with it, the requests issued so *)
(* far are exactly the files read so far, one each, in traversal order.    *)
C8_OneRequestPerReadFile ==
    pc # "idle" =>
        requests = IF args.description
                   THEN SelectSeq(WalkFiles(<< << >> >>), WasRead)
                   ELSE << >>

\* a finished description run in which three files were read, each was sent
\* once, and the first request failed
C8_Witness ==
    /\ pc = "done"
    /\ args.description
    /\ Len(requests) = 3
    /\ \E x \in api_failed : x[1] = requests[1]

\* a finished content run that read files and had a key at hand, by -api and
\* in the environment, but not -description
C8_WitnessNoDescription ==
    /\ pc = "done"
    /\ ~ args.description
    /\ args.api = "sk-arg"
    /\ Truthy(env_api_key(env))
    /\ read_ok # {}

-----------------------------------------------------------------------------
\* the children of a directory that pass should_process and whose status and
\* owner lookups did not fail
Listed(dir, names) ==
    LET Shown(n) == /\ Passes(Append(dir, n))
                    /\ \A k \in StatFailures : <<Append(dir, n), k>> \notin entry_failed
    IN  SelectSeq(names, Shown)

\* the text lines that go with one directory's record
InfoLines(info) ==
    <<[kind |-> "header", directory |-> info.directory],
      [kind |-> "rule", directory |-> info.directory]>>
    \o [i \in 1..Len(info.contents) |->
          [kind |-> "entry", directory |-> info.directory,
           permissions |-> info.contents[i].permissions,
           owner |-> info.contents[i].owner,
           name |-> info.contents[i].name]]

RECURSIVE AllInfoLines(_)
AllInfoLines(infos) ==
    IF infos = << >> THEN << >> ELSE InfoLines(Head(infos)) \o AllInfoLines(Tail(infos))

\* the records so far, the one under construction included
TreeInfos ==
    tree_data \o (IF directory_info.open
                  THEN <<[directory |-> directory_info.directory,
                          contents |-> directory_info.contents]>>
                  ELSE << >>)

(* C9: entry order.  As claimed: each directory's record lists its passing *)
(* children, directories and files interleaved, in the order the           *)
(* filesystem enumeration yields them.                                     *)
C9_EnumerationOrder ==
    \A i \in 1..Len(tree_data) :
        Names(tree_data[i].contents)
            = Listed(tree_data[i].directory, Names(Listing(tree_data[i].directory)))

\* the names of the directory under way that the inner loop has dealt with
HandledNames ==
    LET Kept(n) == Passes(Append(dirpath, n))
        all == SelectSeq(walk_dirs(dirpath), Kept) \o walk_nondirs(dirpath)
    IN  SubSeq(all, 1, Len(all) - Len(pending))

\* C9 as amended: for each visited directory the header line comes first, then
\* one line, and one JSON entry record in the same order, per passing child
\* whose status and owner resolve: first the directories, then the files, each
\* group in the order the filesystem enumeration yields it.  It holds of the
\* directory under way for the names handled so far, and the JSON file holds
\* the records as they were built.
C9_DirectoriesThenFiles ==
    pc # "idle" =>
        /\ output_tree = AllInfoLines(TreeInfos)
        /\ \A i \in 1..Len(tree_data) :
              Names(tree_data[i].contents)
                  = Listed(tree_data[i].directory,
                           walk_dirs(tree_data[i].directory)
                               \o walk_nondirs(tree_data[i].directory))
        /\ directory_info.open =>
              /\ directory_info.directory = dirpath
              /\ Names(directory_info.contents) = Listed(dirpath, HandledNames)
        /\ t_done => json_out.tree = tree_data

\* a finished tree run whose root record lists directory s before the files
\* a.py and b.txt, which the enumeration yields around it
C9_Witness ==
    /\ t_done
    /\ Len(json_out.tree) >= 2
    /\ json_out.tree[1].directory = << >>
    /\ Names(json_out.tree[1].contents) = <<S, A_PY, B_TXT>>

-----------------------------------------------------------------------------
(* C5: a failed description request is contained.  Whenever a request      *)
(* fails, in the same step the file's record is appended with the fallback *)
(* description and the reporter goes on with its loop.                     *)
C5_RequestFailureContained ==
    [][api_failed' # api_failed =>
          /\ pc' = "p_walk"
          /\ Len(overview_data') = Len(overview_data) + 1
          /\ overview_data'[Len(overview_data')].filepath = requests'[Len(requests')]
          /\ overview_data'[Len(overview_data')].description = FALLBACK]_vars

(* C6: a failed lookup for one tree entry is not fatal.  Whenever the      *)
(* status, permission or owner lookup of an entry fails, the reporter goes *)
(* on with its loop, and nothing but that entry is missing from the lists. *)
C6_EntryFailureNotFatal ==
    [][entry_failed' # entry_failed =>
          /\ pc' = "t_walk"
          /\ output_tree' = output_tree]_vars

-----------------------------------------------------------------------------
KeyMissing ==
    args.description /\ ~ Truthy(args.api) /\ ~ Truthy(env_api_key(env))

IgnoreFileUnreadable ==
    Truthy(args.ignore_file) /\ ~ IgnoreFileReadable(args.ignore_file)

Configured == pc \notin {"idle", "resolve_key", "patterns"}

(* C7: configuration errors.  When -description is given and no key        *)
(* resolves, or the ignore file cannot be read, main ends with a non-zero  *)
(* exit code after one record at CRITICAL severity, before either reporter *)
(* starts and with no output file created; and a key given by -api is used *)
(* in preference to the environment.                                       *)
C7_ConfigErrorsFatalAndCritical ==
    /\ (pc \notin {"idle", "resolve_key"} /\ KeyMissing) =>
          /\ pc = "exit1" /\ ExitCode = 1
          /\ log = <<[level |-> "CRITICAL", what |-> "api key required"]>>
          /\ artifacts = {} /\ Visited = {}
    /\ (Configured /\ IgnoreFileUnreadable) =>
          /\ pc = "exit1" /\ ExitCode = 1
          /\ Len(log) = 1 /\ log[1].level = "CRITICAL"
          /\ artifacts = {} /\ Visited = {}
    /\ (Configured /\ args.description /\ Truthy(args.api)) => api_key = args.api

=============================================================================
